---- MODULE Spec2Model ----
(***************************************************************************)
(* pdfwatcher: a watched PDF's highlight annotations are extracted,       *)
(* assembled into (date, locator, info) records and appended to an xlsx    *)
(* store.  Model of pdfwatcherapp1.py.                                     *)
(*                                                                         *)
(* A Python str is modelled as a sequence of one-character strings, so     *)
(* that pattern matching, parsing, formatting and joining are computed.    *)
(* None is modelled as the empty sequence: every test the code makes on a  *)
(* nullable value is a truthiness test, under which None and '' agree.     *)
(***************************************************************************)
EXTENDS Integers, Sequences, FiniteSets, TLC

VARIABLES
    \* ---- configuration (PDFChangeHandler fields / parse_records arguments)
    prefix,          \* locator prefix
    row_heading,     \* heading line of the info string
    mode,            \* association mode
    join_order,      \* comment-ordering mode
    \* ---- environment
    today,           \* the calendar date datetime.now() reports
    \* ---- one run of parse_records, fragment by fragment
    highlights,      \* the argument: sequence of <<page, text>>
    pos,             \* number of fragments the for loop has consumed
    records,         \* local list `records`
    current_date,    \* local `current_date` (None = <<>>)
    comment_buffer,  \* local list `comment_buffer`
    pending_time,    \* local `pending_time` (None = <<>>)
    page,            \* loop variable `page` (0 = not yet bound)
    pc,              \* "idle" | "loop" | "returned" | "raised"
    flushed_at,      \* history: for each record, the loop position that flushed it
    \* ---- the watch session (PDFChangeHandler)
    pdf,             \* fragments the document on disk currently holds
    seen,            \* self.seen
    store,           \* the xlsx file: [exists, rows, fills]
    log,             \* messages sent to the window
    inv,             \* history: what the last on_modified invocation did
    \* ---- the GUI loop (main) and the observer it starts
    gui,             \* "loop" | "closed"
    observer,        \* local `observer` of main: "None" | "Observer"
    status,          \* text of the -STATUS- element
    start_disabled,  \* the -START- button is disabled
    stop_disabled,   \* the -STOP- button is disabled
    running,         \* observers started and not yet stopped and joined
    threads,         \* per dispatching thread: where its on_modified call is
    session_base,    \* history: data rows the store held when the session started
    first_call       \* history: what parse_records returned before the join order changed

vars == <<prefix, row_heading, mode, join_order, today, highlights, pos, records,
          current_date, comment_buffer, pending_time, page, pc, flushed_at,
          pdf, seen, store, log, inv,
          gui, observer, status, start_disabled, stop_disabled, running,
          threads, session_base, first_call>>

confVars  == <<prefix, row_heading, mode, join_order>>
parseVars == <<highlights, pos, records, current_date, comment_buffer,
               pending_time, page, pc, flushed_at>>
watchVars == <<pdf, seen, store, log, inv>>
guiVars   == <<gui, observer, status, start_disabled, stop_disabled, running,
               threads, session_base>>

-----------------------------------------------------------------------------
(* Bounds *)

\* longest fragment sequence given to parse_records
MaxLen == 4

\* most data rows the store is let grow to
MaxRows == 3

-----------------------------------------------------------------------------
(* Characters and strings *)

None == <<>>

Digits == <<"0", "1", "2", "3", "4", "5", "6", "7", "8", "9">>

UpperLetters == <<"A", "B", "C", "D", "E", "F", "G", "H", "I", "J", "K", "L", "M",
                  "N", "O", "P", "Q", "R", "S", "T", "U", "V", "W", "X", "Y", "Z">>

LowerLetters == <<"a", "b", "c", "d", "e", "f", "g", "h", "i", "j", "k", "l", "m",
                  "n", "o", "p", "q", "r", "s", "t", "u", "v", "w", "x", "y", "z">>

Whitespace == {" ", "\n", "\t"}

\* regex class \d
IsDigit(c) == \E i \in DOMAIN Digits : Digits[i] = c

\* regex class [A-Za-z]
IsAlpha(c) ==
    \/ \E i \in DOMAIN UpperLetters : UpperLetters[i] = c
    \/ \E i \in DOMAIN LowerLetters : LowerLetters[i] = c

DigitVal(c) == (CHOOSE i \in DOMAIN Digits : Digits[i] = c) - 1

ToLower(c) ==
    IF \E i \in DOMAIN UpperLetters : UpperLetters[i] = c
    THEN LowerLetters[CHOOSE i \in DOMAIN UpperLetters : UpperLetters[i] = c]
    ELSE c

LowerStr(s) == [i \in DOMAIN s |-> ToLower(s[i])]

\* int(s) of a string of digits
RECURSIVE StrToInt(_)
StrToInt(s) ==
    IF s = <<>> THEN 0
    ELSE 10 * StrToInt(SubSeq(s, 1, Len(s) - 1)) + DigitVal(s[Len(s)])

\* str(n) of a non-negative integer
RECURSIVE IntToStr(_)
IntToStr(n) ==
    IF n < 10 THEN <<Digits[n + 1]>>
    ELSE IntToStr(n \div 10) \o <<Digits[(n % 10) + 1]>>

\* n formatted in at least w digits, zero-padded (%d, %m, %Y of strftime)
RECURSIVE ZeroPad(_, _)
ZeroPad(s, w) == IF Len(s) >= w THEN s ELSE ZeroPad(<<"0">> \o s, w)

\* str.strip()
RECURSIVE LStrip(_)
LStrip(s) ==
    IF s /= <<>> /\ Head(s) \in Whitespace THEN LStrip(Tail(s)) ELSE s

RECURSIVE RStrip(_)
RStrip(s) ==
    IF s /= <<>> /\ s[Len(s)] \in Whitespace
    THEN RStrip(SubSeq(s, 1, Len(s) - 1)) ELSE s

strip(s) == RStrip(LStrip(s))

\* sep.join(strs)
RECURSIVE join(_, _)
join(sep, strs) ==
    IF strs = <<>> THEN <<>>
    ELSE IF Len(strs) = 1 THEN strs[1]
    ELSE strs[1] \o sep \o join(sep, Tail(strs))

\* list(reversed(s))
reversed(s) == [i \in DOMAIN s |-> s[Len(s) + 1 - i]]

-----------------------------------------------------------------------------
(* Program constants *)

DEFAULT_PAGE_PREFIX == <<"C", "H", "R">>
DEFAULT_ROW_HEADING == <<"D", "a", "i", "l", "y", " ", "N", "o", "t", "e", "s">>

\* the two values of the Highlight Order combo and of the Join Order combo
CommentTime == "Comment -> Time"
TimeComment == "Time -> Comment"
TopToBottom == "Top to Bottom"
BottomToTop == "Bottom to Top"

\* separator of joined comments, ' [...] ', and the mark that replaces a
\* trailing comma, ' [...]'
JoinSep == <<" ", "[", ".", ".", ".", "]", " ">>
CutMark == <<" ", "[", ".", ".", ".", "]">>

-----------------------------------------------------------------------------
(* Classification: date_pattern, time_pattern *)

\* date_pattern.match(text):  ^\d{1,2} [A-Za-z]{3} \d{4}$
date_pattern(text) ==
    \E k \in 1..2 :
        /\ Len(text) = k + 9
        /\ \A i \in 1..k : IsDigit(text[i])
        /\ text[k + 1] = " "
        /\ \A i \in (k + 2)..(k + 4) : IsAlpha(text[i])
        /\ text[k + 5] = " "
        /\ \A i \in (k + 6)..(k + 9) : IsDigit(text[i])

\* time_pattern.match(text):  ^\d{2}:\d{2}$
time_pattern(text) ==
    /\ Len(text) = 5
    /\ IsDigit(text[1]) /\ IsDigit(text[2])
    /\ text[3] = ":"
    /\ IsDigit(text[4]) /\ IsDigit(text[5])

-----------------------------------------------------------------------------
(* Calendar dates: datetime.strptime(text, '%d %b %Y'), strftime('%d/%m/%Y') *)

MonthAbbr == << <<"j", "a", "n">>, <<"f", "e", "b">>, <<"m", "a", "r">>,
                <<"a", "p", "r">>, <<"m", "a", "y">>, <<"j", "u", "n">>,
                <<"j", "u", "l">>, <<"a", "u", "g">>, <<"s", "e", "p">>,
                <<"o", "c", "t">>, <<"n", "o", "v">>, <<"d", "e", "c">> >>

IsLeap(y) == (y % 4 = 0 /\ y % 100 /= 0) \/ y % 400 = 0

DaysInMonth(y, m) ==
    IF m = 2 THEN (IF IsLeap(y) THEN 29 ELSE 28)
    ELSE IF m \in {4, 6, 9, 11} THEN 30 ELSE 31

\* strptime of a text that matched date_pattern.  %b matches the month
\* abbreviations case-insensitively; a day, month or year that names no
\* calendar date makes strptime raise ValueError (ok = FALSE).
strptime(text) ==
    LET k == CHOOSE n \in 1..2 : text[n + 1] = " "
        d == StrToInt(SubSeq(text, 1, k))
        b == LowerStr(SubSeq(text, k + 2, k + 4))
        y == StrToInt(SubSeq(text, k + 6, k + 9))
        m == IF \E i \in DOMAIN MonthAbbr : MonthAbbr[i] = b
             THEN CHOOSE i \in DOMAIN MonthAbbr : MonthAbbr[i] = b
             ELSE 0
    IN  IF m /= 0 /\ y >= 1 /\ d >= 1 /\ d <= DaysInMonth(y, m)
        THEN [ok |-> TRUE, day |-> d, month |-> m, year |-> y]
        ELSE [ok |-> FALSE, day |-> 0, month |-> 0, year |-> 0]

\* dt.strftime('%d/%m/%Y')
strftime(dt) ==
    ZeroPad(IntToStr(dt.day), 2) \o <<"/">> \o ZeroPad(IntToStr(dt.month), 2)
        \o <<"/">> \o ZeroPad(IntToStr(dt.year), 4)

\* the calendar day after dt
NextDay(dt) ==
    IF dt.day < DaysInMonth(dt.year, dt.month)
    THEN [dt EXCEPT !.day = @ + 1]
    ELSE IF dt.month < 12
    THEN [dt EXCEPT !.day = 1, !.month = @ + 1]
    ELSE [dt EXCEPT !.day = 1, !.month = 1, !.year = @ + 1]

-----------------------------------------------------------------------------
(* parse_records *)

\* c = re.sub(r',\s*$', ' [...]', text.replace('\n', ' '))
comment_text(text) ==
    LET flat == [i \in DOMAIN text |-> IF text[i] = "\n" THEN " " ELSE text[i]]
        hits == {i \in DOMAIN flat :
                    /\ flat[i] = ","
                    /\ \A j \in (i + 1)..Len(flat) : flat[j] \in Whitespace}
    IN  IF hits = {} THEN flat
        ELSE LET i == CHOOSE h \in hits : \A g \in hits : h <= g
             IN  SubSeq(flat, 1, i - 1) \o CutMark

\* mutant of flush_group: the date is always read from the clock
flush_group_clock(recs, cur_date, comments, time_str, time_page) ==
    LET ordered  == IF join_order = BottomToTop THEN reversed(comments) ELSE comments
        joined   == join(JoinSep, ordered)
        page_str == prefix \o <<" ">> \o IntToStr(time_page)
        info     == row_heading \o <<"\n">> \o time_str \o <<":", " ">> \o joined
    IN  Append(recs, <<strftime(today), page_str, info>>)

\* mutant of flush_group: the comments are joined in arrival order whatever
\* the join order
flush_group_noreverse(recs, cur_date, comments, time_str, time_page) ==
    LET joined == join(JoinSep, comments)
        page_str == prefix \o <<" ">> \o IntToStr(time_page)
        info == row_heading \o <<"\n">> \o time_str \o <<":", " ">> \o joined
        date_str == IF cur_date /= None THEN cur_date ELSE strftime(today)
    IN  Append(recs, <<date_str, page_str, info>>)

\* flush_group(comments, time_str, time_page): the record list after the
\* append, given the list and current_date of the enclosing call
flush_group(recs, cur_date, comments, time_str, time_page) ==
    LET ordered  == IF join_order = BottomToTop THEN reversed(comments) ELSE comments
        joined   == join(JoinSep, ordered)
        page_str == prefix \o <<" ">> \o IntToStr(time_page)
        info     == row_heading \o <<"\n">> \o time_str \o <<":", " ">> \o joined
        date_str == IF cur_date /= None THEN cur_date ELSE strftime(today)
    IN  Append(recs, <<date_str, page_str, info>>)

\* The locals of parse_records as one value.
\*   raised: strptime raised out of the loop
StartState ==
    [records |-> <<>>, current_date |-> None, comment_buffer |-> <<>>,
     pending_time |-> None, page |-> 0, raised |-> FALSE]

\* mutant of on_date: pending_time is not reset
on_date_keeps_pending(st, text) ==
    LET dt == strptime(text)
    IN  IF ~dt.ok THEN [st EXCEPT !.raised = TRUE]
        ELSE [st EXCEPT !.current_date = strftime(dt),
                        !.comment_buffer = <<>>]

\* lines 90-94: the fragment is a DateMarker
on_date(st, text) ==
    LET dt == strptime(text)
    IN  IF ~dt.ok THEN [st EXCEPT !.raised = TRUE]
        ELSE [st EXCEPT !.current_date = strftime(dt),
                        !.comment_buffer = <<>>,
                        !.pending_time = None]

\* mutant of on_time_comment_time: the test `if comment_buffer` is missing
on_time_comment_time_always(st, time_str, pg) ==
    LET comments == [i \in DOMAIN st.comment_buffer |-> st.comment_buffer[i][2]]
    IN  [st EXCEPT !.records = flush_group(st.records, st.current_date,
                                           comments, time_str, pg),
                   !.comment_buffer = <<>>]

\* mutant of on_time_comment_time: comment_buffer.clear() is forgotten
on_time_comment_time_noclear(st, time_str, pg) ==
    IF st.comment_buffer /= <<>>
    THEN LET comments == [i \in DOMAIN st.comment_buffer |-> st.comment_buffer[i][2]]
         IN  [st EXCEPT !.records = flush_group(st.records, st.current_date,
                                                comments, time_str, pg)]
    ELSE st

\* lines 97-101: a TimeMarker in mode Comment -> Time
on_time_comment_time(st, time_str, pg) ==
    IF st.comment_buffer /= <<>>
    THEN LET comments == [i \in DOMAIN st.comment_buffer |-> st.comment_buffer[i][2]]
         IN  [st EXCEPT !.records = flush_group(st.records, st.current_date,
                                                comments, time_str, pg),
                        !.comment_buffer = <<>>]
    ELSE st

\* mutant of on_time_time_comment: the group is flushed with the arriving
\* time instead of pending_time
on_time_time_comment_newtime(st, time_str, pg) ==
    LET f == IF st.pending_time /= None /\ st.comment_buffer /= <<>>
             THEN [st EXCEPT !.records = flush_group(st.records, st.current_date,
                                                     st.comment_buffer,
                                                     time_str, pg),
                             !.comment_buffer = <<>>]
             ELSE st
    IN  [f EXCEPT !.pending_time = time_str]

\* lines 102-106: a TimeMarker in mode Time -> Comment
on_time_time_comment(st, time_str, pg) ==
    LET f == IF st.pending_time /= None /\ st.comment_buffer /= <<>>
             THEN [st EXCEPT !.records = flush_group(st.records, st.current_date,
                                                     st.comment_buffer,
                                                     st.pending_time, pg),
                             !.comment_buffer = <<>>]
             ELSE st
    IN  [f EXCEPT !.pending_time = time_str]

\* lines 107-112: CommentText
on_comment(st, text, pg) ==
    LET c == comment_text(text)
    IN  [st EXCEPT !.comment_buffer =
            Append(@, IF mode = CommentTime THEN <<pg, c>> ELSE c)]

\* lines 88-112: one iteration of `for page, text in highlights`
loop_body(st, frag) ==
    LET pg   == frag[1]
        text == strip(frag[2])
        s    == [st EXCEPT !.page = pg]
    IN  IF date_pattern(text) THEN on_date(s, text)
        ELSE IF time_pattern(text)
        THEN IF mode = CommentTime
             THEN on_time_comment_time(s, text, pg)
             ELSE on_time_time_comment(s, text, pg)
        ELSE on_comment(s, text, pg)

\* mutant of tail_flush: the tail group takes the page of the first fragment
\* of the document rather than the last page seen
tail_flush_firstpage(st) ==
    IF mode = TimeComment /\ st.pending_time /= None /\ st.comment_buffer /= <<>>
    THEN [st EXCEPT !.records = flush_group(st.records, st.current_date,
                                            st.comment_buffer, st.pending_time,
                                            1)]
    ELSE st

\* lines 113-115: the tail flush after the loop
tail_flush(st) ==
    IF mode = TimeComment /\ st.pending_time /= None /\ st.comment_buffer /= <<>>
    THEN [st EXCEPT !.records = flush_group(st.records, st.current_date,
                                            st.comment_buffer, st.pending_time,
                                            st.page)]
    ELSE st

\* the loop from fragment i on; stops where strptime raises
RECURSIVE run_loop(_, _, _)
run_loop(st, hl, i) ==
    IF st.raised \/ i > Len(hl) THEN st
    ELSE run_loop(loop_body(st, hl[i]), hl, i + 1)

\* parse_records(highlights, prefix, row_heading, mode, join_order):
\* [raised |-> TRUE] when it raises, else the returned list in .records
parse_records(hl) ==
    LET st == run_loop(StartState, hl, 1)
    IN  IF st.raised THEN st ELSE tail_flush(st)

-----------------------------------------------------------------------------
(* Inputs *)

Modes      == {CommentTime, TimeComment}
JoinOrders == {TopToBottom, BottomToTop}

\* Fragment texts as extract_highlighted_text produces them: non-empty,
\* words joined by single spaces, stripped.
TxtDate1   == <<"1", " ", "J", "a", "n", " ", "2", "0", "2", "4">>
TxtDate2   == <<"2", "9", " ", "f", "e", "b", " ", "2", "0", "2", "4">>
TxtNoDate  == <<"3", "0", " ", "F", "e", "b", " ", "2", "0", "2", "4">>
TxtTime1   == <<"0", "9", ":", "3", "0">>
TxtTime2   == <<"1", "0", ":", "1", "5">>
TxtNote1   == <<"o", "k">>
TxtNote2   == <<"a", ",">>

Texts == {TxtDate1, TxtDate2, TxtNoDate, TxtTime1, TxtTime2, TxtNote1, TxtNote2}

\* Page layouts of a fragment sequence: every highlight on page 1, or one
\* highlight per page.  extract_highlighted_text walks the pages in
\* ascending order, so page numbers never decrease along the sequence.
OnePage(texts)        == [i \in DOMAIN texts |-> <<1, texts[i]>>]
PagePerFragment(texts) == [i \in DOMAIN texts |-> <<i, texts[i]>>]

TextSeqs == UNION {[1..n -> Texts] : n \in 0..MaxLen}

Inputs == {OnePage(t) : t \in TextSeqs} \cup {PagePerFragment(t) : t \in TextSeqs}

\* the days the clock passes through
ClockStart == [day |-> 31, month |-> 12, year |-> 2023]
ClockEnd   == [day |-> 1, month |-> 1, year |-> 2024]

\* history of the last on_modified call: none yet
NoInvocation ==
    [seq |-> 0, edited |-> FALSE, src_is_pdf |-> FALSE, can_read |-> FALSE,
     can_write |-> FALSE, outcome |-> "none", new |-> <<>>]

\* the xlsx path names no file
NoStore == [exists |-> FALSE, header |-> <<>>, rows |-> <<>>, fills |-> <<>>]

\* no call of parse_records has returned yet
NoCall == [made |-> FALSE, records |-> <<>>, current_date |-> None,
           comment_buffer |-> <<>>, pending_time |-> None]

\* an on_modified call that has not begun
IdleCall == [pc |-> "idle", new |-> <<>>, logged |-> 0]

\* mutant of start_watcher: the handler is scheduled on two observers, so two
\* threads dispatch to it
start_watcher_two_threads == [t \in {1, 2} |-> [pc |-> "idle", new |-> <<>>, logged |-> 0]]

\* start_watcher(values, window), lines 163-165: one Observer is created, the
\* handler is scheduled on it and it is started; an Observer dispatches the
\* events of its queue to the handler from its own single thread.  The
\* threads that call the handler's on_modified, each with no call begun.
start_watcher == [t \in {1} |-> IdleCall]

\* lines 178-183: the window as laid out, before any event
MainInit ==
    /\ gui = "loop"
    /\ observer = "None"
    /\ status = "Stopped"
    /\ start_disabled = FALSE
    /\ stop_disabled = TRUE
    /\ running = 0
    /\ threads = << >>
    /\ session_base = 0

\* lines 192-195: the window while the observer started by -START- runs
Watching(dispatchers) ==
    /\ gui = "loop"
    /\ observer = "Observer"
    /\ status = "Watching"
    /\ start_disabled = TRUE
    /\ stop_disabled = FALSE
    /\ running = 1
    /\ threads = dispatchers
    /\ session_base = 0

-----------------------------------------------------------------------------
(* parse_records, one loop iteration per step *)

Locals ==
    [records |-> records, current_date |-> current_date,
     comment_buffer |-> comment_buffer, pending_time |-> pending_time,
     page |-> page, raised |-> FALSE]

SetLocals(st) ==
    /\ records' = st.records
    /\ current_date' = st.current_date
    /\ comment_buffer' = st.comment_buffer
    /\ pending_time' = st.pending_time
    /\ page' = st.page
    /\ flushed_at' = IF Len(st.records) > Len(records)
                     THEN Append(flushed_at, pos + 1) ELSE flushed_at

InitParse ==
    /\ prefix = DEFAULT_PAGE_PREFIX
    /\ row_heading = DEFAULT_ROW_HEADING
    /\ mode \in Modes
    /\ join_order \in JoinOrders
    /\ today = ClockStart
    /\ highlights \in Inputs
    /\ pos = 0
    /\ records = StartState.records
    /\ current_date = StartState.current_date
    /\ comment_buffer = StartState.comment_buffer
    /\ pending_time = StartState.pending_time
    /\ page = StartState.page
    /\ pc = "loop"
    /\ flushed_at = <<>>
    /\ pdf = <<>>
    /\ seen = {}
    /\ store = NoStore
    /\ log = <<>>
    /\ inv = NoInvocation
    /\ MainInit
    /\ first_call = NoCall

\* the body of the for loop on the next fragment
Iterate ==
    /\ pc = "loop"
    /\ pos < Len(highlights)
    /\ LET st == loop_body(Locals, highlights[pos + 1])
       IN  /\ SetLocals(st)
           /\ pc' = IF st.raised THEN "raised" ELSE "loop"
    /\ pos' = pos + 1
    /\ UNCHANGED <<confVars, today, highlights, watchVars, guiVars, first_call>>

\* the loop is exhausted: tail flush and return
Return ==
    /\ pc = "loop"
    /\ pos = Len(highlights)
    /\ SetLocals(tail_flush(Locals))
    /\ pc' = "returned"
    /\ UNCHANGED <<confVars, today, highlights, pos, watchVars, guiVars, first_call>>

\* midnight passes
Tick ==
    /\ today /= ClockEnd
    /\ today' = NextDay(today)
    /\ UNCHANGED <<confVars, parseVars, watchVars, guiVars, first_call>>

NextParse ==
    \/ Iterate
    \/ Return
    \/ (pc = "loop" /\ Tick)

ParseSpec == InitParse /\ [][NextParse]_vars

-----------------------------------------------------------------------------
(* The watch session: PDFChangeHandler.on_modified, append_to_xlsx *)

\* Documents the watched file is edited between.
DocEmpty    == <<>>
DocUndated  == OnePage(<<TxtNote1, TxtTime1>>)
DocDated    == OnePage(<<TxtDate1, TxtNote1, TxtTime1>>)
DocRepeat   == OnePage(<<TxtNote1, TxtTime1, TxtNote1, TxtTime1>>)
DocTwoDays  == PagePerFragment(<<TxtDate1, TxtNote1, TxtTime1, TxtNote2,
                                 TxtDate2, TxtTime2, TxtNote2, TxtTime1>>)
DocNoDate   == OnePage(<<TxtNote1, TxtNoDate, TxtTime1>>)

Docs == {DocEmpty, DocUndated, DocDated, DocRepeat, DocTwoDays, DocNoDate}

Range(f) == {f[i] : i \in DOMAIN f}

\* mutant of extract_highlighted_text: the read error is swallowed and the
\* highlights collected so far are returned
extract_highlighted_text_partial(doc, can_read) ==
    IF can_read THEN [ok |-> TRUE, highlights |-> doc]
    ELSE [ok |-> TRUE, highlights |-> SubSeq(doc, 1, Len(doc) - 1)]

\* extract_highlighted_text(pdf_path): fitz.open or a page read raises when
\* the file cannot be read; otherwise the fragments of the document
extract_highlighted_text(doc, can_read) ==
    IF can_read THEN [ok |-> TRUE, highlights |-> doc]
    ELSE [ok |-> FALSE, highlights |-> <<>>]

\* mutant of unseen: nothing is filtered out
unseen_all(recs, seen_set) == recs

\* line 40: new = [r for r in records if r not in self.seen]
unseen(recs, seen_set) == SelectSeq(recs, LAMBDA r : r \notin seen_set)

\* lines 139-148: the band flag at data row i, scanning from the first row
RECURSIVE band_at(_, _)
band_at(rows, i) ==
    IF i = 0 THEN FALSE
    ELSE LET before == band_at(rows, i - 1)
             prev_date == IF i = 1 THEN None ELSE rows[i - 1][1]
         IN  IF rows[i][1] /= prev_date THEN ~before ELSE before

\* mutant of append_to_xlsx: the band flag is scanned over the rows of this
\* call only
append_to_xlsx_band_new_rows(file, rows) ==
    LET ws == IF ~file.exists
              THEN [exists |-> TRUE, header |-> <<"Date", "Page Number", "Info">>,
                    rows |-> <<>>, fills |-> <<>>]
              ELSE file
    IN  [ws EXCEPT !.rows = ws.rows \o rows,
                   !.fills = ws.fills \o [i \in DOMAIN rows |-> band_at(rows, i)]]

\* mutant of append_to_xlsx: a new workbook is made whether or not the file
\* exists
append_to_xlsx_new_workbook(file, rows) ==
    [exists |-> TRUE, header |-> <<"Date", "Page Number", "Info">>,
     rows |-> rows, fills |-> [i \in DOMAIN rows |-> band_at(rows, i)]]

\* append_to_xlsx(xlsx_path, rows), when load and save succeed: the file
\* after the call.  A fill is set where the band flag is on and never cleared.
append_to_xlsx(file, rows) ==
    LET ws == IF ~file.exists
              THEN [exists |-> TRUE, header |-> <<"Date", "Page Number", "Info">>,
                    rows |-> <<>>, fills |-> <<>>]
              ELSE file
        all == ws.rows \o rows
    IN  [ws EXCEPT !.rows = all,
                   !.fills = [i \in DOMAIN all |->
                                 \/ (i <= Len(ws.fills) /\ ws.fills[i])
                                 \/ band_at(all, i)]]

\* lines 45-47: the message for one appended record, without its leading
\* wall-clock time of day
log_message(rec) == <<"Appended", rec[2], rec[3]>>

\* on_modified(event): the handler's state after the call and what it did.
\*   src_is_pdf: event.src_path == self.pdf_path
\*   can_read:   the document can be opened and read
\*   can_write:  the store can be loaded and saved
on_modified(src_is_pdf, can_read, can_write) ==
    LET same == [outcome |-> "ignored", new |-> <<>>,
                 seen |-> seen, store |-> store, log |-> log]
        raw  == extract_highlighted_text(pdf, can_read)
        res  == parse_records(raw.highlights)
        new  == unseen(res.records, seen)
    IN  IF ~src_is_pdf THEN same
        ELSE IF ~raw.ok THEN [same EXCEPT !.outcome = "read_error"]
        ELSE IF res.raised THEN [same EXCEPT !.outcome = "parse_error"]
        ELSE IF new = <<>> THEN [same EXCEPT !.outcome = "nothing_new"]
        ELSE IF ~can_write THEN [same EXCEPT !.outcome = "write_error", !.new = new]
        ELSE [outcome |-> "appended", new |-> new,
              seen  |-> seen \cup Range(new),
              store |-> append_to_xlsx(store, new),
              log   |-> log \o [i \in DOMAIN new |-> log_message(new[i])]]

Init ==
    /\ prefix = DEFAULT_PAGE_PREFIX
    /\ row_heading = DEFAULT_ROW_HEADING
    /\ mode \in Modes
    /\ join_order \in JoinOrders
    /\ today = ClockStart
    /\ highlights = <<>>
    /\ pos = 0
    /\ records = StartState.records
    /\ current_date = StartState.current_date
    /\ comment_buffer = StartState.comment_buffer
    /\ pending_time = StartState.pending_time
    /\ page = StartState.page
    /\ pc = "idle"
    /\ flushed_at = <<>>
    /\ pdf \in Docs
    /\ seen = {}
    /\ store = NoStore
    /\ log = <<>>
    /\ inv = NoInvocation
    /\ Watching(start_watcher)
    /\ first_call = NoCall

\* the observer delivers a modification event to the handler
OnModified(src_is_pdf, can_read, can_write) ==
    /\ pc = "idle"
    /\ LET r == on_modified(src_is_pdf, can_read, can_write)
       IN  /\ Len(r.store.rows) <= MaxRows
           /\ seen' = r.seen
           /\ store' = r.store
           /\ log' = r.log
           /\ inv' = [seq |-> 1 - inv.seq, edited |-> FALSE, src_is_pdf |-> src_is_pdf,
                      can_read |-> can_read, can_write |-> can_write,
                      outcome |-> r.outcome, new |-> r.new]
    /\ UNCHANGED <<confVars, today, parseVars, pdf, guiVars, first_call>>

\* the user saves the document with other highlights
EditDocument ==
    /\ pc = "idle"
    /\ \E d \in Docs \ {pdf} : pdf' = d
    /\ inv' = [inv EXCEPT !.edited = TRUE]
    /\ UNCHANGED <<confVars, today, parseVars, seen, store, log, guiVars, first_call>>

\* What the environment decides about one event: the event is for another
\* file of the directory, or the document cannot be read, or the store cannot
\* be written, or nothing fails.
Events ==
    {<<FALSE, TRUE, TRUE>>, <<TRUE, FALSE, TRUE>>, <<TRUE, TRUE, FALSE>>,
     <<TRUE, TRUE, TRUE>>}

Next ==
    \/ \E e \in Events : OnModified(e[1], e[2], e[3])
    \/ EditDocument
    \/ Tick

Spec == Init /\ [][Next]_vars

-----------------------------------------------------------------------------
(* Vocabulary of the properties, in terms of the fragment stream *)

Text(i)   == strip(highlights[i][2])
PageOf(i) == highlights[i][1]

IsDateMarker(i) == date_pattern(Text(i))
IsTimeMarker(i) == ~date_pattern(Text(i)) /\ time_pattern(Text(i))
IsComment(i)    == ~date_pattern(Text(i)) /\ ~time_pattern(Text(i))

\* a step of the loop over fragment number pos + 1, and the return step
LoopStep   == pc = "loop" /\ pos' = pos + 1
ReturnStep == pc = "loop" /\ pc' = "returned"

\* a step that emits exactly one record, keeping the earlier ones
EmitsOne == /\ Len(records') = Len(records) + 1
            /\ SubSeq(records', 1, Len(records)) = records
EmitsNone == records' = records

Emitted == records'[Len(records')]

\* the strings a record is made of
Locator(pg) == prefix \o <<" ">> \o IntToStr(pg)
InOrder(comments) ==
    IF join_order = BottomToTop THEN reversed(comments) ELSE comments
Info(time_str, comments) ==
    row_heading \o <<"\n">> \o time_str \o <<":", " ">>
        \o join(JoinSep, InOrder(comments))

\* the comment part of an info string: what follows 'heading\nHH:MM: '
CommentPart(info) == SubSeq(info, Len(row_heading) + 9, Len(info))

\* the sorted sequence of a set of indices
RECURSIVE Sorted(_)
Sorted(S) ==
    IF S = {} THEN <<>>
    ELSE LET m == CHOOSE x \in S : \A y \in S : x <= y
         IN  <<m>> \o Sorted(S \ {m})

\* the comments of the fragments numbered in S, in stream order
CommentsAt(S) == [k \in DOMAIN Sorted(S) |-> comment_text(Text(Sorted(S)[k]))]

\* the last index below p that satisfies P, 0 if none
LastBelow(p, P(_)) ==
    LET S == {i \in 1..(p - 1) : i <= Len(highlights) /\ P(i)}
    IN  IF S = {} THEN 0 ELSE CHOOSE x \in S : \A y \in S : y <= x

NotComment(i) == ~IsComment(i)

-----------------------------------------------------------------------------
(* C4 *)

-----------------------------------------------------------------------------
(* C5 *)

\* C5: in mode Time -> Comment, a TimeMarker that arrives while
\* pending_time is set and comment_buffer is non-empty emits exactly one
\* record whose time is the previous pending_time and whose locator page is
\* the page of the arriving marker, clears the buffer and makes the arriving
\* time the pending_time; a TimeMarker that arrives with pending_time unset
\* or the buffer empty emits nothing and makes the arriving time the
\* pending_time.
C5_TimeThenComment ==
    [][ (LoopStep /\ mode = TimeComment /\ IsTimeMarker(pos + 1)) =>
            LET p == pos + 1
            IN  /\ pending_time' = Text(p)
                /\ IF pending_time /= None /\ comment_buffer /= <<>>
                   THEN /\ EmitsOne
                        /\ Emitted[2] = Locator(PageOf(p))
                        /\ Emitted[3] = Info(pending_time, comment_buffer)
                        /\ comment_buffer' = <<>>
                   ELSE /\ EmitsNone
                        /\ comment_buffer' = comment_buffer
      ]_vars

\* C5 witness: Time 09:30, two comments, Time 10:15, one highlight per page:
\* one record, time 09:30, locator page 4, and 10:15 is left pending.
C5_Witness ==
    /\ pc = "returned"
    /\ mode = TimeComment
    /\ join_order = TopToBottom
    /\ highlights = PagePerFragment(<<TxtTime1, TxtNote1, TxtNote2, TxtTime2>>)
    /\ Len(records) = 1
    /\ records[1][2] = <<"C", "H", "R", " ", "4">>
    /\ records[1][3] = DEFAULT_ROW_HEADING \o <<"\n">> \o TxtTime1 \o <<":", " ">>
                         \o <<"o", "k">> \o JoinSep \o <<"a">> \o CutMark
    /\ pending_time = TxtTime2
    /\ comment_buffer = <<>>

-----------------------------------------------------------------------------
(* C6 *)

\* C6: when the loop is exhausted in mode Time -> Comment with pending_time
\* set and comment_buffer non-empty, the return step appends exactly one
\* record, last in the result, with time pending_time and the page of the
\* last fragment in its locator; when pending_time is unset or the buffer
\* is empty, and always in mode Comment -> Time, the return step emits
\* nothing.
C6_TailFlush ==
    [][ ReturnStep =>
            IF mode = TimeComment /\ pending_time /= None /\ comment_buffer /= <<>>
            THEN /\ EmitsOne
                 /\ highlights /= <<>>
                 /\ Emitted[2] = Locator(PageOf(Len(highlights)))
                 /\ Emitted[3] = Info(pending_time, comment_buffer)
            ELSE EmitsNone
      ]_vars

\* C6 witness: a flush inside the loop, then the tail flush: Time 09:30,
\* comment, Time 10:15, comment on pages 1..4 gives two records, the last
\* with time 10:15 and locator page 4.
C6_Witness ==
    /\ pc = "returned"
    /\ mode = TimeComment
    /\ highlights = PagePerFragment(<<TxtTime1, TxtNote1, TxtTime2, TxtNote1>>)
    /\ Len(records) = 2
    /\ flushed_at = <<3, 5>>
    /\ records[2][2] = <<"C", "H", "R", " ", "4">>
    /\ records[2][3] = DEFAULT_ROW_HEADING \o <<"\n">> \o TxtTime2 \o <<":", " ">>
                         \o <<"o", "k">>

-----------------------------------------------------------------------------
(* C7 *)

TimeMarkersIn(a, b) ==
    {i \in DOMAIN highlights : a <= i /\ i <= b /\ IsTimeMarker(i)}
CommentsIn(a, b) ==
    {i \in DOMAIN highlights : a <= i /\ i <= b /\ IsComment(i)}

\* the record is made of the time of a TimeMarker numbered a..b and of a
\* non-empty selection of the comment fragments numbered a..b, none empty
MadeFrom(rec, a, b) ==
    \E t \in TimeMarkersIn(a, b) :
        \E S \in (SUBSET CommentsIn(a, b)) \ {{}} :
            /\ rec[3] = Info(Text(t), CommentsAt(S))
            /\ \A i \in S : comment_text(Text(i)) /= <<>>

\* C7: in both modes, every record assembled so far holds at least one
\* comment fragment of the stream and a non-empty comment text, and its
\* time is the text of a TimeMarker of the stream, both from fragments
\* consumed when it was flushed; a stream with no TimeMarker or with no
\* comment fragment (the empty stream included) has no record.
C7_RecordEmission ==
    /\ DOMAIN flushed_at = DOMAIN records
    /\ \A k \in DOMAIN records :
          /\ MadeFrom(records[k], 1, flushed_at[k])
          /\ CommentPart(records[k][3]) /= <<>>
    /\ (TimeMarkersIn(1, Len(highlights)) = {}
          \/ CommentsIn(1, Len(highlights)) = {}) => records = <<>>

\* C7 witness: the stream  'a,'  09:30  in mode Time -> Comment has returned
\* one record whose comment text is 'a [...]'.
C7_Witness ==
    /\ pc = "returned"
    /\ mode = TimeComment
    /\ highlights = PagePerFragment(<<TxtNote2, TxtTime1>>)
    /\ Len(records) = 1
    /\ CommentPart(records[1][3]) = <<"a">> \o CutMark

-----------------------------------------------------------------------------
(* C8 *)

\* C8: in both modes, the step that processes a DateMarker emits no record
\* and leaves comment_buffer empty and pending_time unset; and every record
\* is made only of a TimeMarker and comments that come after the last
\* DateMarker preceding its flush.
C8_DateMarkerResets ==
    /\ [][ (LoopStep /\ IsDateMarker(pos + 1)) =>
               /\ EmitsNone
               /\ pc' = "loop" => (comment_buffer' = <<>> /\ pending_time' = None)
         ]_vars
    /\ [](\A k \in DOMAIN records :
              MadeFrom(records[k],
                       LastBelow(flushed_at[k], IsDateMarker) + 1,
                       flushed_at[k]))

\* C8 witness: comment 'a,', Date, comment 'ok', Time in mode Comment -> Time
\* has returned one record, holding 'ok' alone.
C8_Witness ==
    /\ pc = "returned"
    /\ mode = CommentTime
    /\ highlights = PagePerFragment(<<TxtNote2, TxtDate1, TxtNote1, TxtTime1>>)
    /\ Len(records) = 1
    /\ CommentPart(records[1][3]) = <<"o", "k">>

-----------------------------------------------------------------------------
(* C9 *)

\* C9: the date of every record, at the step that flushes it, is the
\* day/month/year form of the last DateMarker before the flush position, and
\* the clock's date of that moment when no DateMarker precedes it.
C9_RecordDate ==
    [][ Len(records') > Len(records) =>
            LET d == LastBelow(pos + 1, IsDateMarker)
            IN  /\ EmitsOne
                /\ Emitted[1] = IF d /= 0 THEN strftime(strptime(Text(d)))
                                ELSE strftime(today)
      ]_vars

\* C9 witness: after '1 Jan 2024', '29 feb 2024', a comment and a Time, the
\* record is dated 29/02/2024.
C9_Witness ==
    /\ pc = "returned"
    /\ highlights = PagePerFragment(<<TxtDate1, TxtDate2, TxtNote1, TxtTime1>>)
    /\ mode = CommentTime
    /\ Len(records) = 1
    /\ records[1][1] = <<"2", "9", "/", "0", "2", "/", "2", "0", "2", "4">>

\* the clock's date is what an undated record carries, across midnight
C9_WitnessUndated ==
    /\ pc = "returned"
    /\ highlights = OnePage(<<TxtNote1, TxtTime1>>)
    /\ today = ClockEnd
    /\ Len(records) = 1
    /\ records[1][1] = <<"3", "1", "/", "1", "2", "/", "2", "0", "2", "3">>

-----------------------------------------------------------------------------
(* C10 *)

\* C10, as claimed: for every fragment sequence parse_records finishes
\* without raising, also on a fragment of the date pattern's shape that
\* names no calendar date.
C10_NoErrorOutcome == pc /= "raised"

-----------------------------------------------------------------------------
(* Vocabulary of the watch-session properties *)

\* a step that is one on_modified call
Invocation == inv'.seq /= inv.seq

\* the call is for the watched document and reads it
ReadsDocument == inv'.src_is_pdf /\ inv'.can_read

\* the previous call was for the document as it still is
SameDocumentAsBefore == ~inv.edited

-----------------------------------------------------------------------------
(* C1 *)

\* C1, as claimed: when on_modified has appended the new records of a
\* document and runs again on the unchanged document, the second run finds
\* no new record, appends no row and adds nothing to the Seen-set.
C1_Idempotent ==
    [][ (Invocation /\ inv.outcome = "appended" /\ SameDocumentAsBefore
            /\ ReadsDocument) =>
            /\ inv'.new = <<>>
            /\ inv'.outcome = "nothing_new"
            /\ store' = store
            /\ seen' = seen
      ]_vars

-----------------------------------------------------------------------------
(* C2 *)

\* C2, as claimed: a call whose store write fails leaves the Seen-set as it
\* was; a record enters the Seen-set only in a call whose write succeeded;
\* and the next call on the same document computes the same new records as
\* the failed one and tries to write them again.
C2_PendingAfterWriteFailure ==
    [][ Invocation =>
            /\ inv'.outcome = "write_error" => seen' = seen
            /\ seen' /= seen =>
                   /\ inv'.outcome = "appended"
                   /\ inv'.can_write
                   /\ seen' \ seen \subseteq Range(store'.rows)
            /\ (inv.outcome = "write_error" /\ SameDocumentAsBefore
                    /\ ReadsDocument) =>
                   /\ inv'.new = inv.new
                   /\ inv'.outcome \in {"write_error", "appended"}
      ]_vars

-----------------------------------------------------------------------------
(* C3 *)

\* C3: a call for the watched document whose read fails ends with the read
\* error and leaves the store, the Seen-set and the log as they were.
C3_ReadFailureAborts ==
    [][ (Invocation /\ inv'.src_is_pdf /\ ~inv'.can_read) =>
            /\ inv'.outcome = "read_error"
            /\ inv'.new = <<>>
            /\ store' = store
            /\ seen' = seen
            /\ log' = log
      ]_vars

\* C3 witness: the read failed in a session that had appended before, on a
\* document that holds records not yet seen.
C3_Witness ==
    /\ inv.outcome = "read_error"
    /\ ~inv.edited
    /\ seen /= {}
    /\ store.exists
    /\ log /= <<>>
    /\ ~parse_records(pdf).raised
    /\ unseen(parse_records(pdf).records, seen) /= <<>>

-----------------------------------------------------------------------------
(* The two comment orders on one fragment sequence *)

InitOrder ==
    /\ InitParse
    /\ join_order = TopToBottom

\* parse_records has returned; the same highlights are given to it again
\* with join_order 'Bottom to Top'
CallBottomToTop ==
    /\ pc = "returned"
    /\ join_order = TopToBottom
    /\ first_call' = [made |-> TRUE, records |-> records,
                      current_date |-> current_date,
                      comment_buffer |-> comment_buffer,
                      pending_time |-> pending_time]
    /\ join_order' = BottomToTop
    /\ pos' = 0
    /\ records' = StartState.records
    /\ current_date' = StartState.current_date
    /\ comment_buffer' = StartState.comment_buffer
    /\ pending_time' = StartState.pending_time
    /\ page' = StartState.page
    /\ pc' = "loop"
    /\ flushed_at' = <<>>
    /\ UNCHANGED <<prefix, row_heading, mode, today, highlights, watchVars, guiVars>>

NextOrder ==
    \/ Iterate
    \/ Return
    \/ CallBottomToTop

OrderSpec == InitOrder /\ [][NextOrder]_vars

-----------------------------------------------------------------------------
(* C11 *)

\* the info string of a record with the given time and comments in the
\* given sequence
InfoOf(time_str, comments) ==
    row_heading \o <<"\n">> \o time_str \o <<":", " ">> \o join(JoinSep, comments)

\* C11: parse_records with 'Bottom to Top' returns as many records as with
\* 'Top to Bottom' on the same fragments; the i-th records have the same
\* date, locator and time and the same comments of the stream, in reversed
\* order; and the accumulation state the call ends with is the same.
C11_JoinOrderOnlyReverses ==
    (first_call.made /\ pc = "returned") =>
        /\ join_order = BottomToTop
        /\ Len(records) = Len(first_call.records)
        /\ \A i \in DOMAIN records :
              /\ records[i][1] = first_call.records[i][1]
              /\ records[i][2] = first_call.records[i][2]
              /\ \E t \in {j \in DOMAIN highlights : IsTimeMarker(j)} :
                 \E S \in SUBSET {j \in DOMAIN highlights : IsComment(j)} :
                    /\ first_call.records[i][3] = InfoOf(Text(t), CommentsAt(S))
                    /\ records[i][3] = InfoOf(Text(t), reversed(CommentsAt(S)))
        /\ current_date = first_call.current_date
        /\ comment_buffer = first_call.comment_buffer
        /\ pending_time = first_call.pending_time

\* C11 witness: both calls were made on a sequence with a two-comment
\* group and a comment left over, and the group's comments came out reversed.
C11_Witness ==
    /\ first_call.made
    /\ pc = "returned"
    /\ mode = CommentTime
    /\ highlights = OnePage(<<TxtNote1, TxtNote2, TxtTime1, TxtNote2>>)
    /\ Len(records) = 1
    /\ records[1][3] = InfoOf(TxtTime1, <<comment_text(TxtNote2), comment_text(TxtNote1)>>)
    /\ Len(comment_buffer) = 1

-----------------------------------------------------------------------------
(* The store under a sequence of append_to_xlsx calls *)

\* most data rows the store of StoreSpec is let grow to
MaxStoreRows == 5

\* most rows one call is given
MaxBatch == 2

\* rows as on_modified passes them: (date_str, page_str, info) with two
\* dates, and two locators under the first date
SampleRows ==
    {<<strftime(ClockStart), DEFAULT_PAGE_PREFIX \o <<" ", "1">>, <<"x">>>>,
     <<strftime(ClockStart), DEFAULT_PAGE_PREFIX \o <<" ", "2">>, <<"x">>>>,
     <<strftime(ClockEnd), DEFAULT_PAGE_PREFIX \o <<" ", "1">>, <<"x">>>>}

Batches == UNION {[1..n -> SampleRows] : n \in 0..MaxBatch}

InitStore ==
    /\ prefix = DEFAULT_PAGE_PREFIX
    /\ row_heading = DEFAULT_ROW_HEADING
    /\ mode = CommentTime
    /\ join_order = TopToBottom
    /\ today = ClockStart
    /\ highlights = <<>>
    /\ pos = 0
    /\ records = StartState.records
    /\ current_date = StartState.current_date
    /\ comment_buffer = StartState.comment_buffer
    /\ pending_time = StartState.pending_time
    /\ page = StartState.page
    /\ pc = "idle"
    /\ flushed_at = <<>>
    /\ pdf = <<>>
    /\ seen = {}
    /\ store = NoStore
    /\ log = <<>>
    /\ inv = NoInvocation
    /\ MainInit
    /\ first_call = NoCall

\* append_to_xlsx(xlsx_path, rows) is called; load_workbook or wb.save
\* raises when the file cannot be written, and the file stays as it was
AppendToXlsx(rows, can_write) ==
    /\ Len(store.rows) + Len(rows) <= MaxStoreRows
    /\ store' = IF can_write THEN append_to_xlsx(store, rows) ELSE store
    /\ inv' = [NoInvocation EXCEPT !.seq = 1 - inv.seq, !.can_write = can_write,
                                   !.new = rows,
                                   !.outcome = IF can_write THEN "appended"
                                               ELSE "write_error"]
    /\ UNCHANGED <<confVars, today, parseVars, pdf, seen, log, guiVars, first_call>>

NextStore == \E rows \in Batches, can_write \in BOOLEAN : AppendToXlsx(rows, can_write)

StoreSpec == InitStore /\ [][NextStore]_vars

-----------------------------------------------------------------------------
(* C12 *)

\* the data rows at which the date differs from the preceding data row's;
\* the first data row counts as a change
DateChanges(rows) ==
    {k \in DOMAIN rows : k = 1 \/ rows[k][1] /= rows[k - 1][1]}

\* the flag that starts off and flips at every date change, at data row i
BandFlag(rows, i) ==
    Cardinality({k \in DateChanges(rows) : k <= i}) % 2 = 1

\* C12: after any sequence of append_to_xlsx calls, a data row carries the
\* band fill exactly when the flag, scanned over all data rows from the top,
\* is on at that row.
C12_Banding ==
    store.exists =>
        /\ DOMAIN store.fills = DOMAIN store.rows
        /\ \A i \in DOMAIN store.rows : store.fills[i] <=> BandFlag(store.rows, i)

\* C12 witness: dates D1, D1, D2, D2, D1 appended over several calls; the flag
\* toggles at rows 1, 3 and 5.
C12_Witness ==
    /\ store.exists
    /\ Len(store.rows) = 5
    /\ [i \in 1..5 |-> store.rows[i][1]] =
           <<strftime(ClockStart), strftime(ClockStart), strftime(ClockEnd),
             strftime(ClockEnd), strftime(ClockStart)>>
    /\ store.fills = <<TRUE, TRUE, FALSE, FALSE, TRUE>>
    /\ inv.outcome = "appended"
    /\ Len(inv.new) = 1

-----------------------------------------------------------------------------
(* C13 *)

\* C13: every successful append_to_xlsx call leaves a store that has the
\* header row Date, Page Number, Info and, below it, the data rows it had
\* before followed by the rows of the call in their order; a failed call
\* leaves the file as it was.  So the store is the header, written when the
\* file is created, followed by the rows of every call in call order.
C13_AppendOnly ==
    [][ Invocation =>
            IF inv'.outcome = "appended"
            THEN /\ store'.exists
                 /\ store'.header = <<"Date", "Page Number", "Info">>
                 /\ store'.rows = store.rows \o inv'.new
                 /\ store.exists => store'.header = store.header
            ELSE store' = store
      ]_vars

\* C13 witness: the second successful call appended its two rows below the
\* two rows of the first.
C13_Witness ==
    /\ store.exists
    /\ Len(store.rows) = 4
    /\ inv.outcome = "appended"
    /\ Len(inv.new) = 2
    /\ SubSeq(store.rows, 3, 4) = inv.new
    /\ store.rows[1] /= store.rows[3]

-----------------------------------------------------------------------------
(* The GUI loop of main, the observer it starts and stops, and the calls of
   on_modified the observer's thread makes, statement by statement *)

\* mutant of handler_seen: one set is shared by all handlers
handler_seen_shared(previous) == previous

\* line 34: the Seen-set of a newly constructed handler
handler_seen(previous) == {}

\* the window as the branch taken for an event leaves it
Window ==
    [observer |-> observer, status |-> status, start_disabled |-> start_disabled,
     stop_disabled |-> stop_disabled, running |-> running]

\* mutant of on_start: the -START- button is left enabled
on_start_stays_enabled(paths_ok) ==
    IF ~paths_ok THEN Window
    ELSE [observer |-> "Observer", status |-> "Watching",
          start_disabled |-> FALSE, stop_disabled |-> FALSE,
          running |-> running + 1]

\* lines 188-195, event -START-; paths_ok: both -PDF- and -XLSX- are filled in
on_start(paths_ok) ==
    IF ~paths_ok THEN Window
    ELSE [observer |-> "Observer", status |-> "Watching",
          start_disabled |-> TRUE, stop_disabled |-> FALSE,
          running |-> running + 1]

\* lines 196-203, event -STOP-
on_stop ==
    [observer |-> "None", status |-> "Stopped",
     start_disabled |-> FALSE, stop_disabled |-> TRUE,
     running |-> IF observer /= "None" THEN running - 1 ELSE running]

\* lines 186-187 and 206-209, the window is closed
on_close ==
    [Window EXCEPT !.running = IF observer /= "None" THEN running - 1 ELSE running]

SetWindow(w) ==
    /\ observer' = w.observer
    /\ status' = w.status
    /\ start_disabled' = w.start_disabled
    /\ stop_disabled' = w.stop_disabled
    /\ running' = w.running

\* observer.join() returns once the observer's thread has left the handler
Joined == \A t \in DOMAIN threads : threads[t].pc = "idle"

InitMain ==
    /\ prefix = DEFAULT_PAGE_PREFIX
    /\ row_heading = DEFAULT_ROW_HEADING
    /\ mode = CommentTime
    /\ join_order = TopToBottom
    /\ today = ClockStart
    /\ highlights = <<>>
    /\ pos = 0
    /\ records = StartState.records
    /\ current_date = StartState.current_date
    /\ comment_buffer = StartState.comment_buffer
    /\ pending_time = StartState.pending_time
    /\ page = StartState.page
    /\ pc = "idle"
    /\ flushed_at = <<>>
    /\ pdf \in Docs
    /\ seen = {}
    /\ store = NoStore
    /\ log = <<>>
    /\ inv = NoInvocation
    /\ MainInit
    /\ first_call = NoCall

\* the user presses Start Watching, with the two combos on m and j
Start(paths_ok, m, j) ==
    /\ gui = "loop"
    /\ ~start_disabled
    /\ SetWindow(on_start(paths_ok))
    /\ IF paths_ok
       THEN /\ mode' = m
            /\ join_order' = j
            /\ seen' = handler_seen(seen)
            /\ threads' = start_watcher
            /\ session_base' = Len(store.rows)
       ELSE UNCHANGED <<mode, join_order, seen, threads, session_base>>
    /\ UNCHANGED <<prefix, row_heading, today, parseVars, pdf, store, log, inv,
                   gui, first_call>>

\* the user presses Stop Watching
Stop ==
    /\ gui = "loop"
    /\ ~stop_disabled
    /\ Joined
    /\ SetWindow(on_stop)
    /\ threads' = IF observer /= "None" THEN << >> ELSE threads
    /\ UNCHANGED <<confVars, today, parseVars, watchVars, gui, session_base, first_call>>

\* the user closes the window
Close ==
    /\ gui = "loop"
    /\ Joined
    /\ gui' = "closed"
    /\ SetWindow(on_close)
    /\ threads' = IF observer /= "None" THEN << >> ELSE threads
    /\ UNCHANGED <<confVars, today, parseVars, watchVars, session_base, first_call>>

\* lines 37-41 in thread t: the path test, extraction, assembly and the
\* filter against the Seen-set; the call goes on to the write when something
\* is new and otherwise ends (returning, or raising out of the handler)
Begin(t, src_is_pdf, can_read) ==
    /\ threads[t].pc = "idle"
    /\ LET raw == extract_highlighted_text(pdf, can_read)
           res == parse_records(raw.highlights)
           new == unseen(res.records, seen)
       IN  IF src_is_pdf /\ raw.ok /\ ~res.raised /\ new /= <<>>
           THEN /\ Len(store.rows) + Len(new) <= MaxRows
                /\ threads' = [threads EXCEPT ![t] = [pc |-> "write", new |-> new,
                                                      logged |-> 0]]
           ELSE threads' = threads
    /\ UNCHANGED <<confVars, today, parseVars, watchVars, gui, observer, status,
                   start_disabled, stop_disabled, running, session_base, first_call>>

\* mutant of Write: an error of append_to_xlsx is swallowed and the call goes on
Write_swallows_error(t, can_write) ==
    /\ threads[t].pc = "write"
    /\ store' = IF can_write THEN append_to_xlsx(store, threads[t].new) ELSE store
    /\ threads' = [threads EXCEPT ![t].pc = "update"]
    /\ UNCHANGED <<confVars, today, parseVars, pdf, seen, log, inv, gui, observer,
                   status, start_disabled, stop_disabled, running, session_base,
                   first_call>>

\* line 42 in thread t: append_to_xlsx returns, or raises and ends the call
Write(t, can_write) ==
    /\ threads[t].pc = "write"
    /\ IF can_write
       THEN /\ store' = append_to_xlsx(store, threads[t].new)
            /\ threads' = [threads EXCEPT ![t].pc = "update"]
       ELSE /\ store' = store
            /\ threads' = [threads EXCEPT ![t] = IdleCall]
    /\ UNCHANGED <<confVars, today, parseVars, pdf, seen, log, inv, gui, observer,
                   status, start_disabled, stop_disabled, running, session_base,
                   first_call>>

\* line 43 in thread t: self.seen.update(new)
UpdateSeen(t) ==
    /\ threads[t].pc = "update"
    /\ seen' = seen \cup Range(threads[t].new)
    /\ threads' = [threads EXCEPT ![t].pc = "log"]
    /\ UNCHANGED <<confVars, today, parseVars, pdf, store, log, inv, gui, observer,
                   status, start_disabled, stop_disabled, running, session_base,
                   first_call>>

\* lines 44-47 in thread t: one turn of the loop over new
LogRecord(t) ==
    /\ threads[t].pc = "log"
    /\ LET k == threads[t].logged + 1
       IN  /\ log' = Append(log, log_message(threads[t].new[k]))
           /\ threads' = [threads EXCEPT ![t] =
                             IF k = Len(threads[t].new) THEN IdleCall
                             ELSE [@ EXCEPT !.logged = k]]
    /\ UNCHANGED <<confVars, today, parseVars, pdf, seen, store, inv, gui, observer,
                   status, start_disabled, stop_disabled, running, session_base,
                   first_call>>

NextMain ==
    \/ \E paths_ok \in BOOLEAN, m \in Modes, j \in JoinOrders : Start(paths_ok, m, j)
    \/ Stop
    \/ Close
    \/ \E t \in DOMAIN threads, src_is_pdf, can_read \in BOOLEAN :
          Begin(t, src_is_pdf, can_read)
    \/ \E t \in DOMAIN threads, can_write \in BOOLEAN : Write(t, can_write)
    \/ \E t \in DOMAIN threads : UpdateSeen(t)
    \/ \E t \in DOMAIN threads : LogRecord(t)
    \/ EditDocument
    \/ Tick

MainSpec == InitMain /\ [][NextMain]_vars


-----------------------------------------------------------------------------
(* C14 *)

\* the records the running session has appended to the store
SessionRows == Range(SubSeq(store.rows, session_base + 1, Len(store.rows)))

\* C14: while a watch session runs and no on_modified call is under way, the
\* Seen-set is the set of records this session has appended to the store:
\* empty when the session starts, whatever an earlier session had seen.
C14_SeenIsSessionRows ==
    (gui = "loop" /\ running = 1 /\ Joined) => seen = SessionRows

\* C14 witness: a second session runs on a store that holds rows of an
\* earlier one, and has itself appended a record the earlier one had appended.
C14_Witness ==
    /\ gui = "loop"
    /\ running = 1
    /\ Joined
    /\ session_base > 0
    /\ seen /= {}
    /\ \E i \in 1..session_base : store.rows[i] \in seen

-----------------------------------------------------------------------------
(* C15 *)

\* the calls of thread t that have read the Seen-set and not yet updated it
ReadNotUpdated(t) == threads[t].pc \in {"write", "update"}

-----------------------------------------------------------------------------
(* C16 *)

\* the last n entries of sequence s
Last(s, n) == SubSeq(s, Len(s) - n + 1, Len(s))

\* C16: the log grows only by the message of the next record of a call that
\* has written its new records to the store and added them to the Seen-set;
\* and a call that wrote returns only after one message per record of new,
\* in the order of new.
C16_LogAfterPersistence ==
    [][ /\ log' /= log =>
              \E t \in DOMAIN threads :
                  /\ threads[t].pc = "log"
                  /\ LET rec == threads[t].new[threads[t].logged + 1]
                     IN  /\ log' = Append(log, log_message(rec))
                         /\ rec \in seen
                         /\ Len(store.rows) >= session_base + Len(threads[t].new)
                         /\ Last(store.rows, Len(threads[t].new)) = threads[t].new
        /\ \A t \in DOMAIN threads \cap DOMAIN threads' :
              (threads[t].pc \in {"update", "log"} /\ threads'[t].pc = "idle") =>
                  /\ Len(log') >= Len(threads[t].new)
                  /\ Last(log', Len(threads[t].new)) =
                         [k \in DOMAIN threads[t].new |-> log_message(threads[t].new[k])]
      ]_vars

\* C16 witness: a call that appended two records has sent the message of the
\* first and not yet that of the second.
C16_Witness ==
    \E t \in DOMAIN threads :
        /\ threads[t].pc = "log"
        /\ Len(threads[t].new) = 2
        /\ threads[t].logged = 1
        /\ Last(log, 1) = <<log_message(threads[t].new[1])>>
        /\ threads[t].new[2] \in seen

-----------------------------------------------------------------------------
(* C17 *)

\* the document can be read and assembled, and every record it holds is
\* already in the Seen-set (none at all included)
NothingNew ==
    /\ ~parse_records(pdf).raised
    /\ Range(parse_records(pdf).records) \subseteq seen

\* C17: an on_modified call for another path than the watched document, and
\* a call for the watched document whose records are all in the Seen-set
\* already, leave the store (and whether it exists), the Seen-set and the log
\* as they were.
C17_NothingNewNoEffect ==
    [][ (Invocation /\ (~inv'.src_is_pdf \/ (inv'.can_read /\ NothingNew))) =>
            /\ store' = store
            /\ seen' = seen
            /\ log' = log
      ]_vars

\* C17 witness: a call for the watched document found its records, which the
\* session had appended before, all in the Seen-set.
C17_Witness ==
    /\ inv.src_is_pdf
    /\ inv.can_read
    /\ inv.can_write
    /\ ~inv.edited
    /\ NothingNew
    /\ parse_records(pdf).records /= <<>>
    /\ inv.new = <<>>
    /\ store.exists

\* C17 witness: a call for another path, before the store exists.
C17_WitnessOtherPath ==
    /\ inv.seq = 1
    /\ ~inv.src_is_pdf
    /\ ~store.exists
    /\ parse_records(pdf).records /= <<>>

-----------------------------------------------------------------------------
(* C18 *)

\* C18: in mode Time -> Comment every record is made of the time of a
\* TimeMarker and of comments that all arrived after that TimeMarker.
C18_GroupStartsAtTimeMarker ==
    mode = TimeComment =>
        \A k \in DOMAIN records :
            \E t \in 1..pos :
                /\ IsTimeMarker(t)
                /\ \E S \in SUBSET {j \in (t + 1)..pos : IsComment(j)} :
                      /\ S /= {}
                      /\ records[k][3] = Info(Text(t), CommentsAt(S))

-----------------------------------------------------------------------------
(* C19 *)

\* C19: no two data rows appended by the watch session are the same record.
C19_NoDuplicateRows ==
    \A i, j \in DOMAIN store.rows :
        i /= j => store.rows[i] /= store.rows[j]

-----------------------------------------------------------------------------
(* C20 *)

\* C20: while the GUI loop runs, at most one observer is running, one is
\* running exactly when main holds it and the status reads Watching, and the
\* Start button is enabled only while none is running; once the window has
\* been closed, every observer that was started has been stopped and joined.
C20_WatchLifecycle ==
    /\ running <= 1
    /\ gui = "loop" =>
          /\ running = 1 <=> status = "Watching"
          /\ running = 1 <=> observer = "Observer"
          /\ running = 0 <=> status = "Stopped"
          /\ ~start_disabled => running = 0
          /\ DOMAIN threads /= {} <=> running = 1
    /\ gui = "closed" =>
          /\ running = 0
          /\ DOMAIN threads = {}

\* C20 witness: the window was closed while the second watch session of the
\* run was watching, after its handler had appended to the store.
C20_Witness ==
    /\ gui = "closed"
    /\ observer = "Observer"
    /\ status = "Watching"
    /\ running = 0
    /\ session_base > 0
    /\ Len(store.rows) > session_base

====
